---------------------------- MODULE Spec2Model ----------------------------
(***************************************************************************)
(* headline-goat: the experiment registry (table tests), the event ledger  *)
(* (table events) and the beacon ingestion handler, modelled from          *)
(* internal/store/sqlite.go, internal/server/handlers.go and               *)
(* internal/cli/create.go.                                                 *)
(*                                                                         *)
(* Every SQL statement is one atomic step (SQLite serialises statements);  *)
(* a handler that issues several statements is a process whose position    *)
(* between two statements is pc[p], so that concurrent requests interleave *)
(* at statement granularity.                                               *)
(***************************************************************************)
EXTENDS Integers, Sequences, FiniteSets, Bags, TLC

(***************************************************************************)
(* Bounds of the model.                                                    *)
(***************************************************************************)
\* number of concurrently served beacon requests (net/http goroutines)
NumProcs == 2
\* total number of operations (beacon requests and CLI commands) started
MaxOps == 3
\* largest number of views or conversions handed to a function of package stats
MaxCount == 3

Procs == 1..NumProcs
\* concurrently running CLI commands (one OS process each)
CliProcs == 1..NumProcs

\* experiment names a caller may send; "" is the missing field
TestNames == {"hero"}
\* visitor identifiers; "" is the missing field
VisitorIDs == {"v1"}
\* values of the "e" field; "click" stands for every unsupported kind
EventTypes == {"view", "convert", "click"}
\* values of the "src" field; "" is the absent field
Sources == {"", "client", "server"}
\* variant label lists (json "variants", or --variants after the split)
VariantLists == {<<"A", "B">>, <<"X", "Y", "Z">>}
\* values of the "v" field
VariantIndexes == {-1, 0, 1, 2}

\* store.TestState
StateRunning == "running"
StatePaused == "paused"
StateCompleted == "completed"

\* net/http status codes written by handleBeacon
StatusNoContent == 204
StatusBadRequest == 400
StatusInternalServerError == 500

VARIABLES
    tests,      \* table tests: registered name -> row
    events,     \* table events: the bag of its rows (id and created_at left out)
    pc,         \* position of each handleBeacon invocation
    req,        \* the decoded BeaconRequest of each invocation
    test,       \* the *store.Test the invocation resolved
    gocReturn,  \* which return of GetOrCreateTest the invocation took
    resp,       \* the response written by the invocation
    firstCall,  \* dedup key -> variant of the first RecordEvent call for it
    createdLog, \* name -> number of GetOrCreateTest returns with wasCreated
    cliErr,     \* outcome of the last create or init command
    nops,       \* operations started so far
    cli,        \* the running winner and create --url commands
    del,        \* the running DeleteTest call
    storeErr,   \* error returned by the last direct store call
    calc        \* the last call of a function of package stats: name, arguments, result

\* the state of the administrative commands and direct store calls
adminVars == <<cli, del, storeErr>>

vars == <<tests, events, pc, req, test, gocReturn, resp, firstCall, createdLog, cliErr, nops,
          cli, del, storeErr, calc>>

(***************************************************************************)
(* Values.                                                                 *)
(***************************************************************************)
\* the zero BeaconRequest
NoReq == [TestName |-> "", Variant |-> 0, EventType |-> "", VisitorID |-> "",
          Source |-> "", Variants |-> <<>>]

\* a nil *store.Test
NilTest == [Name |-> "", Variants |-> <<>>, Weights |-> <<>>, State |-> "",
            WinnerVariant |-> <<>>, Source |-> "", HasSourceConflict |-> FALSE, URL |-> ""]

\* a command that is not running
NoCmd == [pc |-> "idle", cmd |-> "", name |-> "", variant |-> 0, url |-> "",
          test |-> NilTest, err |-> ""]

\* no DeleteTest call
NoDel == [pc |-> "idle", name |-> "", err |-> ""]

\* no function of package stats has been called yet
NoCalc == [fn |-> "", args |-> <<>>, out |-> <<>>]

NoResp == [code |-> 0, body |-> ""]

\* every BeaconRequest the model feeds to the handler: view reports with
\* every variant index, source and label list, and reports of every kind
\* with every combination of missing fields
BeaconRequests ==
    [TestName : TestNames,
     Variant : VariantIndexes,
     EventType : {"view"},
     VisitorID : VisitorIDs,
     Source : Sources,
     Variants : VariantLists \cup {<<>>}]
    \cup
    [TestName : TestNames \cup {""},
     Variant : {0},
     EventType : EventTypes,
     VisitorID : VisitorIDs \cup {""},
     Source : {"client"},
     Variants : {<<>>, <<"A", "B">>}]

\* the row INSERT INTO tests writes (state 'running', column defaults); the
\* nullable columns winner_variant and url hold <<>> for NULL and <<x>> for x
NewTestRow(name, variants, weights, source) ==
    [Name |-> name, Variants |-> variants, Weights |-> weights, State |-> StateRunning,
     WinnerVariant |-> <<>>, Source |-> source, HasSourceConflict |-> FALSE,
     URL |-> <<>>]

\* the Test that createTestWithSource returns: URL is the zero string
NewTest(name, variants, weights, source) ==
    [NewTestRow(name, variants, weights, source) EXCEPT !.URL = ""]

\* the dedup key of idx_events_dedup
EventKey(e) == <<e.test_name, e.visitor_id, e.event_type>>

Init ==
    /\ tests = [n \in {} |-> NilTest]
    /\ events = EmptyBag
    /\ pc = [p \in Procs |-> "idle"]
    /\ req = [p \in Procs |-> NoReq]
    /\ test = [p \in Procs |-> NilTest]
    /\ gocReturn = [p \in Procs |-> "none"]
    /\ resp = [p \in Procs |-> NoResp]
    /\ firstCall = [k \in {} |-> 0]
    /\ createdLog = [n \in TestNames |-> 0]
    /\ cliErr = ""
    /\ nops = 0
    /\ cli = [c \in CliProcs |-> NoCmd]
    /\ del = NoDel
    /\ storeErr = ""
    /\ calc = NoCalc

(***************************************************************************)
(* The store (internal/store/sqlite.go).  Each operator is one statement.  *)
(***************************************************************************)
\* GetTest: SELECT ... FROM tests WHERE name = ?; sql.ErrNoRows -> ErrNotFound
\* a NULL url scans into the zero string
GetTest(name) ==
    IF name \in DOMAIN tests
    THEN [err |-> "",
          test |-> [tests[name] EXCEPT !.URL = IF @ = <<>> THEN "" ELSE @[1]]]
    ELSE [err |-> "ErrNotFound", test |-> NilTest]

\* createTestWithSource: INSERT INTO tests; name is UNIQUE, so the insert
\* fails on a taken name.  On success the returned Test is built from the
\* arguments, not read back.  The variants column holds the JSON text of
\* the list, which GetTest decodes; the row keeps the list itself.
createTestWithSourceReplace(name, variants, weights, source) ==
    [err |-> "", test |-> NewTest(name, variants, weights, source),
     tests |-> [n \in DOMAIN tests \cup {name} |->
                   IF n = name THEN NewTestRow(name, variants, weights, source)
                   ELSE tests[n]]]

createTestWithSource(name, variants, weights, source) ==
    IF name \in DOMAIN tests
    THEN [err |-> "UNIQUE constraint failed: tests.name", test |-> NilTest, tests |-> tests]
    ELSE [err |-> "", test |-> NewTest(name, variants, weights, source),
          tests |-> tests @@ (name :> NewTestRow(name, variants, weights, source))]

\* CreateTest: createTestWithSource with source "server"
CreateTest(name, variants, weights) ==
    createTestWithSource(name, variants, weights, "server")

\* containsUniqueConstraint matching a message the driver never produces
containsUniqueConstraintNoMatch(err) ==
    err = "duplicate key"

\* containsUniqueConstraint
containsUniqueConstraint(err) ==
    err = "UNIQUE constraint failed: tests.name"

\* SetSourceConflict flipping the stored flag instead of setting it
SetSourceConflictToggle(name, hasConflict) ==
    IF name \in DOMAIN tests
    THEN [err |-> "", tests |-> [tests EXCEPT ![name].HasSourceConflict = ~@]]
    ELSE [err |-> "ErrNotFound", tests |-> tests]

\* SetSourceConflict: UPDATE tests SET has_source_conflict = ? WHERE name = ?
SetSourceConflict(name, hasConflict) ==
    IF name \in DOMAIN tests
    THEN [err |-> "", tests |-> [tests EXCEPT ![name].HasSourceConflict = hasConflict]]
    ELSE [err |-> "ErrNotFound", tests |-> tests]

\* the rows of events that idx_events_dedup makes collide with a new row
DedupConflict(testName, eventType, visitorID) ==
    \E e \in BagToSet(events) :
        EventKey(e) = <<testName, visitorID, eventType>>

\* RecordEvent as INSERT OR REPLACE: the colliding row is replaced
RecordEventReplace(testName, variant, eventType, visitorID) ==
    LET kept == {e \in BagToSet(events) : EventKey(e) # <<testName, visitorID, eventType>>}
    IN [err |-> "",
        events |-> [e \in kept |-> events[e]]
                   (+) SetToBag({[test_name |-> testName, variant |-> variant,
                                  event_type |-> eventType, visitor_id |-> visitorID]})]

\* RecordEvent as a plain INSERT on a table without idx_events_dedup
RecordEventNoIndex(testName, variant, eventType, visitorID) ==
    [err |-> "",
     events |-> events (+) SetToBag({[test_name |-> testName, variant |-> variant,
                                      event_type |-> eventType, visitor_id |-> visitorID]})]

\* RecordEvent as a plain INSERT: the colliding row is an error
RecordEventStrict(testName, variant, eventType, visitorID) ==
    IF DedupConflict(testName, eventType, visitorID)
    THEN [err |-> "UNIQUE constraint failed: events", events |-> events]
    ELSE [err |-> "",
          events |-> events (+) SetToBag({[test_name |-> testName, variant |-> variant,
                                           event_type |-> eventType, visitor_id |-> visitorID]})]

\* RecordEvent: INSERT OR IGNORE INTO events; a row whose
\* (test_name, visitor_id, event_type) is taken is dropped without error.
RecordEvent(testName, variant, eventType, visitorID) ==
    IF DedupConflict(testName, eventType, visitorID)
    THEN [err |-> "", events |-> events]
    ELSE [err |-> "",
          events |-> events (+) SetToBag({[test_name |-> testName, variant |-> variant,
                                           event_type |-> eventType, visitor_id |-> visitorID]})]

\* ORDER BY variant
RECURSIVE OrderBy(_)
OrderBy(S) ==
    IF S = {} THEN <<>>
    ELSE LET m == CHOOSE x \in S : \A y \in S : x <= y
         IN <<m>> \o OrderBy(S \ {m})

\* CASE WHEN event_type = kind THEN visitor_id END: <<>> is NULL
CaseWhen(e, kind) == IF e.event_type = kind THEN <<e.visitor_id>> ELSE <<>>

\* COUNT(DISTINCT x) over the rows of a group: NULL is not counted
CountDistinct(rows, kind) ==
    Cardinality({CaseWhen(e, kind) : e \in rows} \ {<<>>})

\* GetVariantStats without the WHERE test_name = ? filter
GetVariantStatsAllTests(testName) ==
    LET rows == BagToSet(events)
        groups == OrderBy({e.variant : e \in rows})
    IN [i \in 1..Len(groups) |->
           [Variant |-> groups[i],
            Views |-> CountDistinct({e \in rows : e.variant = groups[i]}, "view"),
            Conversions |-> CountDistinct({e \in rows : e.variant = groups[i]}, "convert")]]

\* GetVariantStats: SELECT variant, COUNT(DISTINCT ...) views,
\* COUNT(DISTINCT ...) conversions FROM events WHERE test_name = ?
\* GROUP BY variant ORDER BY variant
GetVariantStats(testName) ==
    LET rows == {e \in BagToSet(events) : e.test_name = testName}
        groups == OrderBy({e.variant : e \in rows})
    IN [i \in 1..Len(groups) |->
           [Variant |-> groups[i],
            Views |-> CountDistinct({e \in rows : e.variant = groups[i]}, "view"),
            Conversions |-> CountDistinct({e \in rows : e.variant = groups[i]}, "convert")]]

\* the history of RecordEvent calls: the variant of the first call per key
LogCall(testName, variant, eventType, visitorID) ==
    IF <<testName, visitorID, eventType>> \in DOMAIN firstCall
    THEN firstCall
    ELSE firstCall @@ (<<testName, visitorID, eventType>> :> variant)

(***************************************************************************)
(* handleBeacon (internal/server/handlers.go).                             *)
(***************************************************************************)
\* the validation without the visitor check
MissingFieldsNameOnly(r) == r.TestName = ""

\* the validation of the required fields, lines 100 and 105
MissingFields(r) == r.TestName = "" \/ r.VisitorID = ""
InvalidEventType(r) == r.EventType # "view" /\ r.EventType # "convert"

\* `if req.Source == "" { req.Source = "client" }`
DefaultSource(r) == [r EXCEPT !.Source = IF r.Source = "" THEN "client" ELSE r.Source]

\* the auto-create path taken whatever the source
AutoCreatePathAnySource(r) == Len(r.Variants) > 0

\* `len(req.Variants) > 0 && req.Source == "client"`: the auto-create path
AutoCreatePath(r) == Len(r.Variants) > 0 /\ r.Source = "client"

\* the range check off by one at the upper end
InvalidVariantOffByOne(r, t) == r.Variant < 0 \/ r.Variant > Len(t.Variants)

\* `req.Variant < 0 || req.Variant >= len(test.Variants)`
InvalidVariant(r, t) == r.Variant < 0 \/ r.Variant >= Len(t.Variants)

\* `test.Source == "server" && req.Source == "client" && !test.HasSourceConflict`
ConflictDetected(r, t) ==
    t.Source = "server" /\ r.Source = "client" /\ ~t.HasSourceConflict

AfterResolveRunningOnly(r, t) ==
    IF InvalidVariant(r, t) \/ t.State # StateRunning THEN "done"
    ELSE IF ConflictDetected(r, t) THEN "conflict"
    ELSE "record"

\* the handler's position once the test t is resolved (lines 139-149)
AfterResolve(r, t) ==
    IF InvalidVariant(r, t) THEN "done"
    ELSE IF ConflictDetected(r, t) THEN "conflict"
    ELSE "record"

RespAfterResolve(r, t) ==
    IF InvalidVariant(r, t) THEN [code |-> StatusBadRequest, body |-> "Invalid variant"]
    ELSE NoResp

\* the request arrives, is decoded and validated; a valid one gets its
\* default source and is routed to GetOrCreateTest or to GetTest; a rejected
\* one is dropped with its response
Receive(p, r) ==
    /\ pc[p] = "idle"
    /\ nops < MaxOps
    /\ nops' = nops + 1
    /\ req' = [req EXCEPT ![p] = IF MissingFields(r) \/ InvalidEventType(r)
                                 THEN NoReq ELSE DefaultSource(r)]
    /\ IF MissingFields(r)
       THEN /\ pc' = [pc EXCEPT ![p] = "done"]
            /\ resp' = [resp EXCEPT ![p] = [code |-> StatusBadRequest, body |-> "Missing required fields"]]
       ELSE IF InvalidEventType(r)
       THEN /\ pc' = [pc EXCEPT ![p] = "done"]
            /\ resp' = [resp EXCEPT ![p] = [code |-> StatusBadRequest, body |-> "Invalid event type"]]
       ELSE /\ pc' = [pc EXCEPT ![p] = IF AutoCreatePath(DefaultSource(r)) THEN "goc_get" ELSE "get"]
            /\ resp' = resp
    /\ UNCHANGED <<tests, events, test, gocReturn, firstCall, createdLog, cliErr>>
    /\ UNCHANGED adminVars
    /\ UNCHANGED calc

GocGetUpsert(p) ==
    /\ pc[p] = "goc_get"
    /\ LET g == GetTest(req[p].TestName)
           t == [g.test EXCEPT !.Variants = req[p].Variants] IN
       IF g.err = ""
       THEN /\ tests' = [tests EXCEPT ![req[p].TestName].Variants = req[p].Variants]
            /\ test' = [test EXCEPT ![p] = t]
            /\ gocReturn' = [gocReturn EXCEPT ![p] = "existing"]
            /\ pc' = [pc EXCEPT ![p] = AfterResolve(req[p], t)]
            /\ resp' = [resp EXCEPT ![p] = RespAfterResolve(req[p], t)]
       ELSE /\ pc' = [pc EXCEPT ![p] = "goc_insert"]
            /\ UNCHANGED <<tests, test, gocReturn, resp>>
    /\ UNCHANGED <<events, req, firstCall, createdLog, cliErr, nops>>
    /\ UNCHANGED adminVars
    /\ UNCHANGED calc

\* GetOrCreateTest, first statement: GetTest; an existing test is returned
GocGet(p) ==
    /\ pc[p] = "goc_get"
    /\ LET g == GetTest(req[p].TestName) IN
       IF g.err = ""
       THEN /\ test' = [test EXCEPT ![p] = g.test]
            /\ gocReturn' = [gocReturn EXCEPT ![p] = "existing"]
            /\ pc' = [pc EXCEPT ![p] = AfterResolve(req[p], g.test)]
            /\ resp' = [resp EXCEPT ![p] = RespAfterResolve(req[p], g.test)]
       ELSE /\ pc' = [pc EXCEPT ![p] = "goc_insert"]
            /\ UNCHANGED <<test, gocReturn, resp>>
    /\ UNCHANGED <<tests, events, req, firstCall, createdLog, cliErr, nops>>
    /\ UNCHANGED adminVars
    /\ UNCHANGED calc

\* GetOrCreateTest, second statement: createTestWithSource(..., "client")
GocInsert(p) ==
    /\ pc[p] = "goc_insert"
    /\ LET c == createTestWithSource(req[p].TestName, req[p].Variants, <<>>, "client") IN
       IF c.err = ""
       THEN /\ tests' = c.tests
            /\ test' = [test EXCEPT ![p] = c.test]
            /\ gocReturn' = [gocReturn EXCEPT ![p] = "created"]
            /\ createdLog' = [createdLog EXCEPT ![req[p].TestName] = @ + 1]
            /\ pc' = [pc EXCEPT ![p] = AfterResolve(req[p], c.test)]
            /\ resp' = [resp EXCEPT ![p] = RespAfterResolve(req[p], c.test)]
       ELSE IF containsUniqueConstraint(c.err)
       THEN /\ pc' = [pc EXCEPT ![p] = "goc_reread"]
            /\ UNCHANGED <<tests, test, gocReturn, createdLog, resp>>
       ELSE /\ pc' = [pc EXCEPT ![p] = "done"]
            /\ resp' = [resp EXCEPT ![p] = [code |-> StatusInternalServerError, body |-> "Failed to get or create test"]]
            /\ UNCHANGED <<tests, test, gocReturn, createdLog>>
    /\ UNCHANGED <<events, req, firstCall, cliErr, nops>>
    /\ UNCHANGED adminVars
    /\ UNCHANGED calc

\* GetOrCreateTest, third statement: the loser of the insert race re-reads
GocReread(p) ==
    /\ pc[p] = "goc_reread"
    /\ LET g == GetTest(req[p].TestName) IN
       IF g.err = ""
       THEN /\ test' = [test EXCEPT ![p] = g.test]
            /\ gocReturn' = [gocReturn EXCEPT ![p] = "reread"]
            /\ pc' = [pc EXCEPT ![p] = AfterResolve(req[p], g.test)]
            /\ resp' = [resp EXCEPT ![p] = RespAfterResolve(req[p], g.test)]
       ELSE /\ pc' = [pc EXCEPT ![p] = "done"]
            /\ resp' = [resp EXCEPT ![p] = [code |-> StatusInternalServerError, body |-> "Failed to get or create test"]]
            /\ UNCHANGED <<test, gocReturn>>
    /\ UNCHANGED <<tests, events, req, firstCall, createdLog, cliErr, nops>>
    /\ UNCHANGED adminVars
    /\ UNCHANGED calc

GetLenient(p) ==
    /\ pc[p] = "get"
    /\ LET g == GetTest(req[p].TestName) IN
       IF g.err # ""
       THEN /\ pc' = [pc EXCEPT ![p] = "record"]
            /\ UNCHANGED <<resp, test>>
       ELSE /\ test' = [test EXCEPT ![p] = g.test]
            /\ pc' = [pc EXCEPT ![p] = AfterResolve(req[p], g.test)]
            /\ resp' = [resp EXCEPT ![p] = RespAfterResolve(req[p], g.test)]
    /\ UNCHANGED <<tests, events, req, gocReturn, firstCall, createdLog, cliErr, nops>>
    /\ UNCHANGED adminVars
    /\ UNCHANGED calc

\* the other path: the test must exist
Get(p) ==
    /\ pc[p] = "get"
    /\ LET g == GetTest(req[p].TestName) IN
       IF g.err # ""
       THEN /\ pc' = [pc EXCEPT ![p] = "done"]
            /\ resp' = [resp EXCEPT ![p] = [code |-> StatusBadRequest, body |-> "Test not found"]]
            /\ test' = test
       ELSE /\ test' = [test EXCEPT ![p] = g.test]
            /\ pc' = [pc EXCEPT ![p] = AfterResolve(req[p], g.test)]
            /\ resp' = [resp EXCEPT ![p] = RespAfterResolve(req[p], g.test)]
    /\ UNCHANGED <<tests, events, req, gocReturn, firstCall, createdLog, cliErr, nops>>
    /\ UNCHANGED adminVars
    /\ UNCHANGED calc

\* `_ = s.store.SetSourceConflict(ctx, test.Name, true)`: the error is dropped
MarkConflict(p) ==
    /\ pc[p] = "conflict"
    /\ tests' = SetSourceConflict(test[p].Name, TRUE).tests
    /\ pc' = [pc EXCEPT ![p] = "record"]
    /\ UNCHANGED <<events, req, test, gocReturn, resp, firstCall, createdLog, cliErr, nops>>
    /\ UNCHANGED adminVars
    /\ UNCHANGED calc

\* RecordEvent; an error is a 500, success a 204
Record(p) ==
    /\ pc[p] = "record"
    /\ LET e == RecordEvent(req[p].TestName, req[p].Variant, req[p].EventType, req[p].VisitorID) IN
       /\ events' = e.events
       /\ resp' = [resp EXCEPT ![p] =
                      IF e.err # ""
                      THEN [code |-> StatusInternalServerError, body |-> "Failed to record event"]
                      ELSE [code |-> StatusNoContent, body |-> ""]]
    /\ firstCall' = LogCall(req[p].TestName, req[p].Variant, req[p].EventType, req[p].VisitorID)
    /\ pc' = [pc EXCEPT ![p] = "done"]
    /\ UNCHANGED <<tests, req, test, gocReturn, createdLog, cliErr, nops>>
    /\ UNCHANGED adminVars
    /\ UNCHANGED calc

\* the handler returns; its locals are gone
Finish(p) ==
    /\ pc[p] = "done"
    /\ pc' = [pc EXCEPT ![p] = "idle"]
    /\ req' = [req EXCEPT ![p] = NoReq]
    /\ test' = [test EXCEPT ![p] = NilTest]
    /\ gocReturn' = [gocReturn EXCEPT ![p] = "none"]
    /\ resp' = [resp EXCEPT ![p] = NoResp]
    /\ UNCHANGED <<tests, events, firstCall, createdLog, cliErr, nops>>
    /\ UNCHANGED adminVars
    /\ UNCHANGED calc

(***************************************************************************)
(* The create command (internal/cli/create.go).                            *)
(***************************************************************************)
\* `hlg create <name> --variants ...`: CreateTest with source "server"
CreateCmd(name, variantList) ==
    /\ nops < MaxOps
    /\ nops' = nops + 1
    /\ IF Len(variantList) < 2
       THEN /\ cliErr' = "need at least 2 variants"
            /\ tests' = tests
       ELSE LET c == CreateTest(name, variantList, <<>>) IN
            /\ tests' = c.tests
            /\ cliErr' = IF c.err = "" THEN "" ELSE "failed to create test"
    /\ UNCHANGED <<events, pc, req, test, gocReturn, resp, firstCall, createdLog>>
    /\ UNCHANGED adminVars
    /\ UNCHANGED calc

Next ==
    \/ \E p \in Procs, r \in BeaconRequests : Receive(p, r)
    \/ \E p \in Procs : GocGet(p)
    \/ \E p \in Procs : GocInsert(p)
    \/ \E p \in Procs : GocReread(p)
    \/ \E p \in Procs : Get(p)
    \/ \E p \in Procs : MarkConflict(p)
    \/ \E p \in Procs : Record(p)
    \/ \E p \in Procs : Finish(p)
    \/ \E name \in TestNames, variantList \in VariantLists : CreateCmd(name, variantList)

Spec == Init /\ [][Next]_vars

(***************************************************************************)
(* The ledger alone: RecordEvent called directly on the store, as          *)
(* tests/integration/store/sqlite_test.go does, with two experiments and   *)
(* two visitors.                                                           *)
(***************************************************************************)
LedgerNames == {"hero", "cta"}
LedgerVisitors == {"v1", "v2"}
LedgerKinds == {"view", "convert"}
LedgerVariants == {0, 1}

StoreRecordEvent(testName, variant, eventType, visitorID) ==
    /\ events' = RecordEvent(testName, variant, eventType, visitorID).events
    /\ firstCall' = LogCall(testName, variant, eventType, visitorID)
    /\ UNCHANGED <<tests, pc, req, test, gocReturn, resp, createdLog, cliErr, nops>>
    /\ UNCHANGED adminVars
    /\ UNCHANGED calc

LedgerNext ==
    \E testName \in LedgerNames, variant \in LedgerVariants,
       eventType \in LedgerKinds, visitorID \in LedgerVisitors :
        StoreRecordEvent(testName, variant, eventType, visitorID)

LedgerSpec == Init /\ [][LedgerNext]_vars

(***************************************************************************)
(* More of the store: state changes, URL fields and the lookup by URL.     *)
(***************************************************************************)

UpdateTestStateRunningOnly(name, state, winnerVariant) ==
    IF name \in DOMAIN tests /\ tests[name].State = StateRunning
    THEN [err |-> "",
          tests |-> [tests EXCEPT ![name].State = state,
                                  ![name].WinnerVariant =
                                      IF winnerVariant # <<>> THEN winnerVariant ELSE @]]
    ELSE [err |-> "ErrNotFound", tests |-> tests]

\* UPDATE tests SET state = ?, winner_variant = ? ... WHERE name = ?; the
\* winner column is written only when winnerVariant is given (<<i>>), and no
\* row affected is ErrNotFound
UpdateTestState(name, state, winnerVariant) ==
    IF name \in DOMAIN tests
    THEN [err |-> "",
          tests |-> [tests EXCEPT ![name].State = state,
                                  ![name].WinnerVariant =
                                      IF winnerVariant # <<>> THEN winnerVariant ELSE @]]
    ELSE [err |-> "ErrNotFound", tests |-> tests]

SetWinnerPaused(testName, variantIndex) ==
    UpdateTestState(testName, StatePaused, <<variantIndex>>)

SetWinner(testName, variantIndex) ==
    UpdateTestState(testName, StateCompleted, <<variantIndex>>)

\* the empty string is stored as NULL
nullableStringPtr(s) == IF s = "" THEN <<>> ELSE <<s>>

\* UPDATE tests SET url = ? ... WHERE name = ?; no row affected is ErrNotFound
SetTestURLFields(name, url) ==
    IF name \in DOMAIN tests
    THEN [err |-> "", tests |-> [tests EXCEPT ![name].URL = nullableStringPtr(url)]]
    ELSE [err |-> "ErrNotFound", tests |-> tests]

\* the comparison url = ? of SQL: unknown, hence not selected, on a NULL column
SqlEq(column, value) == column # <<>> /\ column[1] = value

GetTestsByURLAnyState(url) ==
    {n \in DOMAIN tests : SqlEq(tests[n].URL, url)}

\* SELECT ... FROM tests WHERE url = ? AND state = 'running': the names of
\* the rows selected (the query has no ORDER BY)
GetTestsByURL(url) ==
    {n \in DOMAIN tests : SqlEq(tests[n].URL, url) /\ tests[n].State = "running"}

(***************************************************************************)
(* The winner command (internal/cli/winner.go) and the create command      *)
(* with its --url flag (internal/cli/create.go).  Each command is its own  *)
(* process on the same database file; a command that issues two statements *)
(* can be interleaved between them.                                        *)
(***************************************************************************)
AdminNames == {"hero", "cta"}
AdminURLs == {"", "/", "/a"}
CreateLists == {<<"A">>, <<"A", "B">>, <<"X", "Y", "Z">>}
AdminLists == {<<"A">>, <<"A", "B">>}

WinnerVariantInvalidOffByOne(variantIndex, t) ==
    variantIndex < 0 \/ variantIndex > Len(t.Variants)

\* winner.go 43: the index names no variant of the test
WinnerVariantInvalid(variantIndex, t) ==
    variantIndex < 0 \/ variantIndex >= Len(t.Variants)

\* winner.go 32-45: GetTest and the two validations
WinnerGetTest(c, testName, variantIndex) ==
    /\ cli[c].pc = "idle"
    /\ nops < MaxOps
    /\ nops' = nops + 1
    /\ LET g == GetTest(testName)
           cmd == [NoCmd EXCEPT !.cmd = "winner", !.name = testName,
                                !.variant = variantIndex, !.pc = "exit"] IN
       cli' = [cli EXCEPT ![c] =
           IF g.err # "" THEN [cmd EXCEPT !.err = "not found"]
           ELSE IF g.test.State # StateRunning
                THEN [cmd EXCEPT !.err = "is already " \o g.test.State]
           ELSE IF WinnerVariantInvalid(variantIndex, g.test)
                THEN [cmd EXCEPT !.err = "variant doesn't exist"]
           ELSE [cmd EXCEPT !.pc = "set_winner", !.test = g.test]]
    /\ UNCHANGED <<tests, events, pc, req, test, gocReturn, resp, firstCall,
                   createdLog, cliErr, del, storeErr>>
    /\ UNCHANGED calc

\* winner.go 48-59: SetWinner
WinnerSetWinner(c) ==
    /\ cli[c].pc = "set_winner"
    /\ LET u == SetWinner(cli[c].name, cli[c].variant) IN
       /\ tests' = u.tests
       /\ cli' = [cli EXCEPT ![c].pc = "exit",
                             ![c].err = IF u.err # "" THEN "failed to set winner" ELSE ""]
    /\ UNCHANGED <<events, pc, req, test, gocReturn, resp, firstCall,
                   createdLog, cliErr, nops, del, storeErr>>
    /\ UNCHANGED calc

\* create.go 39-62: the variant count check and CreateTest
CreateCmdCreateTest(c, testName, variantList, url) ==
    /\ cli[c].pc = "idle"
    /\ nops < MaxOps
    /\ nops' = nops + 1
    /\ LET cmd == [NoCmd EXCEPT !.cmd = "create", !.name = testName,
                                !.url = url, !.pc = "exit"]
           t == CreateTest(testName, variantList, <<>>) IN
       IF Len(variantList) < 2
       THEN /\ cli' = [cli EXCEPT ![c] = [cmd EXCEPT !.err = "need at least 2 variants"]]
            /\ tests' = tests
       ELSE /\ tests' = t.tests
            /\ cli' = [cli EXCEPT ![c] =
                   IF t.err # "" THEN [cmd EXCEPT !.err = "failed to create test"]
                   ELSE IF url # "" THEN [cmd EXCEPT !.pc = "set_url", !.test = t.test]
                   ELSE [cmd EXCEPT !.test = t.test]]
    /\ UNCHANGED <<events, pc, req, test, gocReturn, resp, firstCall,
                   createdLog, cliErr, del, storeErr>>
    /\ UNCHANGED calc

\* create.go 64-70: SetTestURLFields, run when a URL flag was given
CreateCmdSetURL(c) ==
    /\ cli[c].pc = "set_url"
    /\ LET u == SetTestURLFields(cli[c].name, cli[c].url) IN
       /\ tests' = u.tests
       /\ cli' = [cli EXCEPT ![c].pc = "exit",
                             ![c].err = IF u.err # "" THEN "failed to set URL fields" ELSE ""]
    /\ UNCHANGED <<events, pc, req, test, gocReturn, resp, firstCall,
                   createdLog, cliErr, nops, del, storeErr>>
    /\ UNCHANGED calc

\* the command's process ends
CliExit(c) ==
    /\ cli[c].pc = "exit"
    /\ cli' = [cli EXCEPT ![c] = NoCmd]
    /\ UNCHANGED <<tests, events, pc, req, test, gocReturn, resp, firstCall,
                   createdLog, cliErr, nops, del, storeErr>>
    /\ UNCHANGED calc

\* the reports sent while the commands run are handled one at a time
AdminProcs == {1}

\* the reports sent while the commands run
AdminRequests ==
    [TestName : {"hero"}, Variant : {0}, EventType : {"view"}, VisitorID : {"v1"},
     Source : {"client", "server"}, Variants : {<<>>, <<"A", "B">>}]

AdminNext ==
    \/ \E c \in CliProcs, testName \in AdminNames, variantIndex \in VariantIndexes :
           WinnerGetTest(c, testName, variantIndex)
    \/ \E c \in CliProcs : WinnerSetWinner(c)
    \/ \E c \in CliProcs, testName \in AdminNames, variantList \in AdminLists,
          url \in AdminURLs : CreateCmdCreateTest(c, testName, variantList, url)
    \/ \E c \in CliProcs : CreateCmdSetURL(c)
    \/ \E c \in CliProcs : CliExit(c)
    \/ \E p \in AdminProcs, r \in AdminRequests : Receive(p, r)
    \/ \E p \in AdminProcs : GocGet(p)
    \/ \E p \in AdminProcs : GocInsert(p)
    \/ \E p \in AdminProcs : GocReread(p)
    \/ \E p \in AdminProcs : Get(p)
    \/ \E p \in AdminProcs : MarkConflict(p)
    \/ \E p \in AdminProcs : Record(p)
    \/ \E p \in AdminProcs : Finish(p)

AdminSpec == Init /\ [][AdminNext]_vars

(***************************************************************************)
(* The registry alone: CreateTest, UpdateTestState and SetWinner called    *)
(* directly on the store, one call after the other, as                     *)
(* tests/integration/cli/winner_test.go and                                *)
(* tests/integration/store/sqlite_test.go do.                              *)
(***************************************************************************)
StoreCreateTest(name, variants) ==
    /\ tests' = CreateTest(name, variants, <<>>).tests
    /\ storeErr' = CreateTest(name, variants, <<>>).err
    /\ UNCHANGED <<events, pc, req, test, gocReturn, resp, firstCall, createdLog,
                   cliErr, nops, cli, del>>
    /\ UNCHANGED calc

\* UpdateTestState(ctx, name, state, nil)
StoreUpdateTestState(name, state) ==
    /\ tests' = UpdateTestState(name, state, <<>>).tests
    /\ storeErr' = UpdateTestState(name, state, <<>>).err
    /\ UNCHANGED <<events, pc, req, test, gocReturn, resp, firstCall, createdLog,
                   cliErr, nops, cli, del>>
    /\ UNCHANGED calc

StoreSetWinner(testName, variantIndex) ==
    /\ tests' = SetWinner(testName, variantIndex).tests
    /\ storeErr' = SetWinner(testName, variantIndex).err
    /\ UNCHANGED <<events, pc, req, test, gocReturn, resp, firstCall, createdLog,
                   cliErr, nops, cli, del>>
    /\ UNCHANGED calc

RegistryNext ==
    \/ \E name \in AdminNames, variants \in VariantLists : StoreCreateTest(name, variants)
    \/ \E name \in AdminNames, state \in {StateRunning, StatePaused} :
           StoreUpdateTestState(name, state)
    \/ \E testName \in AdminNames, variantIndex \in VariantIndexes :
           StoreSetWinner(testName, variantIndex)

RegistrySpec == Init /\ [][RegistryNext]_vars

(***************************************************************************)
(* The init command (internal/cli/init.go): create with optional weights.  *)
(* A weight is a whole number of ten-thousandths, so that the sum and the  *)
(* tolerance 0.001 are exact.                                              *)
(***************************************************************************)
\* the weight 1.0
WeightOne == 10000
\* the tolerance 0.001 on the sum of the weights
SumTolerance == 10

InitLists == {<<"A">>, <<"A", "B">>, <<"X", "Y", "Z">>}
InitWeights ==
    {<<>>, <<10000>>, <<5000, 5000>>, <<5000, 4995>>, <<5000, 4985>>, <<5000, 5015>>,
     <<-1000, 11000>>, <<0, 10000>>, <<12000, 0>>, <<3000, 3000, 4000>>, <<5000, 5000, 5000>>}

Abs(x) == IF x < 0 THEN -x ELSE x

\* init.go 82-88: sum += w over the weights
RECURSIVE SumWeights(_)
SumWeights(ws) == IF ws = <<>> THEN 0 ELSE ws[1] + SumWeights(Tail(ws))

\* init.go 84: some weight is below 0 or above 1
WeightOutOfRange(ws) == \E i \in 1..Len(ws) : ws[i] < 0 \/ ws[i] > WeightOne

SumOffToleranceNever(ws) == FALSE

\* init.go 90: math.Abs(sum-1.0) > 0.001
SumOffTolerance(ws) == Abs(SumWeights(ws) - WeightOne) > SumTolerance

\* runInit with name and flags given (no prompt): the validations, then
\* CreateTest; the names drawn match ^[a-zA-Z0-9-]+$
InitCmd(name, variantList, weightList) ==
    /\ nops < MaxOps
    /\ nops' = nops + 1
    /\ IF Len(variantList) < 2
       THEN /\ cliErr' = "at least 2 variants required"
            /\ tests' = tests
       ELSE IF Len(weightList) > 0 /\ Len(weightList) # Len(variantList)
       THEN /\ cliErr' = "number of weights must match number of variants"
            /\ tests' = tests
       ELSE IF Len(weightList) > 0 /\ WeightOutOfRange(weightList)
       THEN /\ cliErr' = "weights must be between 0 and 1"
            /\ tests' = tests
       ELSE IF Len(weightList) > 0 /\ SumOffTolerance(weightList)
       THEN /\ cliErr' = "weights must sum to 1.0"
            /\ tests' = tests
       ELSE LET c == CreateTest(name, variantList, weightList) IN
            /\ tests' = c.tests
            /\ cliErr' = IF c.err = "" THEN "" ELSE "failed to create test"
    /\ UNCHANGED <<events, pc, req, test, gocReturn, resp, firstCall, createdLog>>
    /\ UNCHANGED adminVars
    /\ UNCHANGED calc

DefinitionNext ==
    \/ \E name \in AdminNames, variantList \in InitLists, weightList \in InitWeights :
           InitCmd(name, variantList, weightList)
    \/ \E name \in AdminNames, variantList \in CreateLists : CreateCmd(name, variantList)

DefinitionSpec == Init /\ [][DefinitionNext]_vars

(***************************************************************************)
(* DeleteTest (internal/store/sqlite.go) running beside the beacon handler *)
(* and the create command.  Its two DELETE statements are not in a         *)
(* transaction, and Open never turns foreign key enforcement on, so the    *)
(* reference events.test_name -> tests.name constrains nothing.            *)
(***************************************************************************)

\* DELETE FROM events WHERE test_name = ?
DeleteEvents(name) ==
    LET kept == {e \in BagToSet(events) : e.test_name # name}
    IN [e \in kept |-> events[e]]

\* DELETE FROM tests WHERE name = ?; no row affected is ErrNotFound
DeleteRow(name) ==
    IF name \in DOMAIN tests
    THEN [err |-> "", tests |-> [n \in DOMAIN tests \ {name} |-> tests[n]]]
    ELSE [err |-> "ErrNotFound", tests |-> tests]

\* DeleteTest, first statement
DeleteTestEvents(name) ==
    /\ del.pc = "idle"
    /\ nops < MaxOps
    /\ nops' = nops + 1
    /\ events' = DeleteEvents(name)
    /\ del' = [pc |-> "tests", name |-> name, err |-> ""]
    /\ UNCHANGED <<tests, pc, req, test, gocReturn, resp, firstCall, createdLog,
                   cliErr, cli, storeErr>>
    /\ UNCHANGED calc

\* DeleteTest, second statement and the result
DeleteTestRow ==
    /\ del.pc = "tests"
    /\ tests' = DeleteRow(del.name).tests
    /\ del' = [del EXCEPT !.pc = "done", !.err = DeleteRow(del.name).err]
    /\ UNCHANGED <<events, pc, req, test, gocReturn, resp, firstCall, createdLog,
                   cliErr, nops, cli, storeErr>>
    /\ UNCHANGED calc

\* the caller has the result
DeleteTestReturn ==
    /\ del.pc = "done"
    /\ del' = NoDel
    /\ UNCHANGED <<tests, events, pc, req, test, gocReturn, resp, firstCall,
                   createdLog, cliErr, nops, cli, storeErr>>
    /\ UNCHANGED calc

\* the reports sent meanwhile: with no labels, one label or two
LifecycleRequests ==
    [TestName : {"hero"}, Variant : {0}, EventType : {"view"}, VisitorID : {"v1"},
     Source : {"client", "server"}, Variants : {<<>>, <<"A">>, <<"A", "B">>}]

LifecycleNext ==
    \/ \E p \in Procs, r \in LifecycleRequests : Receive(p, r)
    \/ \E p \in Procs : GocGet(p)
    \/ \E p \in Procs : GocInsert(p)
    \/ \E p \in Procs : GocReread(p)
    \/ \E p \in Procs : Get(p)
    \/ \E p \in Procs : MarkConflict(p)
    \/ \E p \in Procs : Record(p)
    \/ \E p \in Procs : Finish(p)
    \/ \E name \in TestNames, variantList \in VariantLists : CreateCmd(name, variantList)
    \/ \E name \in TestNames : DeleteTestEvents(name)
    \/ DeleteTestRow
    \/ DeleteTestReturn

LifecycleSpec == Init /\ [][LifecycleNext]_vars

\* ---------------------------------------------------------------------
\* Package stats (src/internal/stats).  A float64 is modelled in fixed
\* point: the integer x stands for x / Scale, every operation rounds its
\* result to the nearest representable value, as the float64 operation
\* does at its own resolution.  A float64 result that may be NaN is a
\* sequence: <<x>> is the number x, <<>> is NaN.
\* ---------------------------------------------------------------------
Scale == 1000

NaN == <<>>

\* v := e; F(v): the value of e is computed once and then used by F
With(e, F(_)) == CHOOSE r \in {F(v) : v \in {e}} : TRUE

\* a / b rounded to the nearest integer, half away from zero
RDiv(a, b) ==
    CHOOSE q \in {IF (x < 0) # (y < 0)
                  THEN -((2 * Abs(x) + Abs(y)) \div (2 * Abs(y)))
                  ELSE (2 * Abs(x) + Abs(y)) \div (2 * Abs(y)) : x \in {a}, y \in {b}} : TRUE

\* float64 product and quotient of two fixed-point numbers
FMul(a, b) == RDiv(a * b, Scale)

FDiv(a, b) == RDiv(a * Scale, b)

\* float64(n) of an int
Float(n) == n * Scale

\* the largest r in lo..hi with r * r <= n
RECURSIVE SqrtSearch(_, _, _)
SqrtSearch(n, lo, hi) ==
    IF lo >= hi THEN lo
    ELSE With((lo + hi + 1) \div 2, LAMBDA mid :
             IF mid * mid <= n THEN SqrtSearch(n, mid, hi)
             ELSE SqrtSearch(n, lo, mid - 1))

\* math.Sqrt of a fixed-point number x >= 0, rounded to nearest
Sqrt(x) ==
    With(x * Scale, LAMBDA n :
    With(SqrtSearch(n, 0, 40000), LAMBDA r :
        IF n - r * r > r THEN r + 1 ELSE r))

\* math.Exp(-y) for a fixed-point y >= 0: halve the argument until the
\* series 1 - y + y^2/2 - y^3/6 is exact at this resolution, then square
RECURSIVE ExpNeg(_)
ExpNeg(y) ==
    With(y, LAMBDA v :
        IF v > 8 * Scale THEN 0
        ELSE IF v <= Scale \div 4
             THEN Scale - v + RDiv(v * v, 2 * Scale) - RDiv(v * v * v, 6 * Scale * Scale)
             ELSE With(ExpNeg(RDiv(v, 2)), LAMBDA h : FMul(h, h)))

\* math.Log(x) for a fixed-point 0 < x <= 1: double the argument into
\* [1/2, 1], then ln x = 2 (u + u^3/3 + u^5/5) with u = (x - 1) / (x + 1)
RECURSIVE Log(_)
Log(x) ==
    With(x, LAMBDA v :
        IF 2 * v < Scale THEN Log(2 * v) - 693
        ELSE With(FDiv(v - Scale, v + Scale), LAMBDA u :
             With(FMul(FMul(u, u), u), LAMBDA u3 :
                 2 * (u + RDiv(u3, 3) + RDiv(FMul(FMul(u3, u), u), 5)))))

\* normalCDF(x): Abramowitz and Stegun 7.1.26 on |x| / sqrt 2, with the
\* coefficients a1..a5 and p rounded to the resolution
normalCDF(x) ==
    With(x, LAMBDA v :
    With(FDiv(Abs(v), 1414), LAMBDA ax :
    With(FDiv(Scale, Scale + FMul(328, ax)), LAMBDA t :
    With(Scale - FMul(FMul(FMul(FMul(FMul(FMul(1061, t) - 1453, t) + 1421, t) - 284, t) + 255, t),
                      ExpNeg(FMul(ax, ax))), LAMBDA y :
        RDiv(Scale + (IF v < 0 THEN -1 ELSE 1) * y, 2)))))

\* the end of SignificanceTest, from the standard error on
ZTestOf(pA, pB, radic) ==
    IF radic < 0 THEN NaN
    ELSE With(Sqrt(radic), LAMBDA se :
             IF se = 0
             THEN IF pA > pB THEN <<Scale>>
                  ELSE IF pA < pB THEN <<0>>
                  ELSE <<Scale \div 2>>
             ELSE <<normalCDF(FDiv(pA - pB, se))>>)

\* lines 39-65 of SignificanceTest, both views nonzero: the one-sided
\* two-proportion z-test; NaN when the pooled variance is negative
ZTest(aConv, aViews, bConv, bViews) ==
    With(FDiv(Float(aConv), Float(aViews)), LAMBDA pA :
    With(FDiv(Float(bConv), Float(bViews)), LAMBDA pB :
    With(FDiv(Float(aConv + bConv), Float(aViews + bViews)), LAMBDA pooledP :
    With(FMul(FMul(pooledP, Scale - pooledP),
              FDiv(Scale, Float(aViews)) + FDiv(Scale, Float(bViews))), LAMBDA radic :
        ZTestOf(pA, pB, radic)))))

\* a side without views loses
SignificanceTestNoViewsLoses(aConv, aViews, bConv, bViews) ==
    IF aViews = 0 /\ bViews = 0 THEN <<Scale \div 2>>
    ELSE IF aViews = 0 THEN <<0>>
    ELSE IF bViews = 0 THEN <<Scale>>
    ELSE ZTest(aConv, aViews, bConv, bViews)

\* SignificanceTest(aConv, aViews, bConv, bViews)
SignificanceTest(aConv, aViews, bConv, bViews) ==
    IF aViews = 0 /\ bViews = 0 THEN <<Scale \div 2>>
    ELSE IF aViews = 0 \/ bViews = 0 THEN <<Scale \div 2>>
    ELSE ZTest(aConv, aViews, bConv, bViews)

\* the rational function of the two tails of approximateZScore, with the
\* coefficients c and d rounded to the resolution
TailRatio(q0) ==
    With(q0, LAMBDA q :
        FDiv(FMul(FMul(FMul(FMul(FMul(-8, q) - 322, q) - 2401, q) - 2550, q) + 4375, q) + 2938,
             FMul(FMul(FMul(FMul(8, q) + 322, q) + 2445, q) + 3754, q) + Scale))

\* the rational function of the central region of approximateZScore, with
\* the coefficients a and b rounded to the resolution
CentralRatio(q0) ==
    With(q0, LAMBDA q :
    With(FMul(q, q), LAMBDA r :
        FDiv(FMul(FMul(FMul(FMul(FMul(FMul(-39697, r) + 220946, r) - 275929, r)
                            + 138358, r) - 30665, r) + 2507, q),
             FMul(FMul(FMul(FMul(FMul(-54476, r) + 161586, r) - 155699, r)
                       + 66801, r) - 13281, r) + Scale)))

\* approximateZScore(confidence): the rational approximation to the
\* inverse normal CDF at p = (1 + confidence) / 2, for confidence < 1;
\* pLow is 0.02425 rounded to the resolution
approximateZScore(confidence) ==
    With(RDiv(Scale + confidence, 2), LAMBDA p :
        IF p < 24 THEN TailRatio(Sqrt(-2 * Log(p)))
        ELSE IF p <= Scale - 24 THEN CentralRatio(p - Scale \div 2)
        ELSE -TailRatio(Sqrt(-2 * Log(Scale - p))))

\* ZScore(confidence): the first case of the switch that holds
ZScore(confidence) ==
    IF confidence >= 990 THEN 2576
    ELSE IF confidence >= 950 THEN 1960
    ELSE IF confidence >= 900 THEN 1645
    ELSE IF confidence >= 850 THEN 1440
    ELSE IF confidence >= 800 THEN 1280
    ELSE approximateZScore(confidence)

\* the end of WilsonInterval, from the clamps on; the two clamps leave a
\* NaN alone
WilsonBounds(center, spread) ==
    IF spread = NaN THEN <<NaN, NaN>>
    ELSE << <<IF center - spread[1] < 0 THEN 0 ELSE center - spread[1]>>,
            <<IF center + spread[1] > Scale THEN Scale ELSE center + spread[1]>> >>

\* WilsonInterval(successes, trials, confidence): <<lower, upper>>; the
\* spread is NaN when the radicand is negative
WilsonInterval(successes, trials, confidence) ==
    IF trials = 0 THEN <<<<0>>, <<0>>>>
    ELSE With(ZScore(confidence), LAMBDA z :
         With(FDiv(Float(successes), Float(trials)), LAMBDA p :
         With(Float(trials), LAMBDA n :
         With(FMul(z, z), LAMBDA zz :
         With(Scale + FDiv(zz, n), LAMBDA denominator :
         With(FDiv(FMul(p, Scale - p), n) + FDiv(zz, FMul(FMul(4 * Scale, n), n)), LAMBDA radic :
             WilsonBounds(FDiv(p + FDiv(zz, 2 * n), denominator),
                          IF radic < 0 THEN NaN
                          ELSE <<FMul(FDiv(z, denominator), Sqrt(radic))>>)))))))

\* statsMap[i] of Analyze: the last entry of variantStats for variant i,
\* the zero value when there is none
StatsMap(variantStats, i) ==
    LET at == {k \in DOMAIN variantStats : variantStats[k].Variant = i}
    IN  IF at = {} THEN [Variant |-> 0, Views |-> 0, Conversions |-> 0]
        ELSE variantStats[CHOOSE k \in at : \A l \in at : l <= k]

\* variants[i] as the first loop of Analyze builds it
VariantResultOf(t, variantStats, i) ==
    With(StatsMap(variantStats, i), LAMBDA stat :
    With(WilsonInterval(stat.Conversions, stat.Views, 950), LAMBDA ci :
        [Index       |-> i,
         Name        |-> t.Variants[i + 1],
         Views       |-> stat.Views,
         Conversions |-> stat.Conversions,
         Rate        |-> IF stat.Views > 0
                         THEN FDiv(Float(stat.Conversions), Float(stat.Views))
                         ELSE 0,
         CILower     |-> ci[1],
         CIUpper     |-> ci[2]]))

\* the scan with ">=": the last of several equal rates wins
RECURSIVE ScanMaxLast(_, _, _, _)
RECURSIVE ScanMax(_, _, _, _)
ScanMaxLast(variants, i, best, index) ==
    IF i >= Len(variants) THEN index
    ELSE IF variants[i + 1].Rate >= best
         THEN ScanMaxLast(variants, i + 1, variants[i + 1].Rate, i)
         ELSE ScanMaxLast(variants, i + 1, best, index)

\* the scan "if rate > best { best = rate; index = i }" over variants
\* i..len-1 (0-based), from the running maximum best at index
ScanMax(variants, i, best, index) ==
    IF i >= Len(variants) THEN index
    ELSE IF variants[i + 1].Rate > best
         THEN ScanMax(variants, i + 1, variants[i + 1].Rate, i)
         ELSE ScanMax(variants, i + 1, best, index)

\* the pair with the control always first
ComparedPairControlFirst(variants, leadingVariant) ==
    IF leadingVariant = 0
    THEN <<0, ScanMax(variants, 1, 0, 1)>>
    ELSE <<0, leadingVariant>>

\* the pair of indexes Analyze hands to SignificanceTest: the control and
\* the best challenger when the control leads, else the leader and the
\* control
ComparedPair(variants, leadingVariant) ==
    IF leadingVariant = 0
    THEN <<0, ScanMax(variants, 1, 0, 1)>>
    ELSE <<leadingVariant, 0>>

\* the *Result Analyze returns
ResultOf(variants, leadingVariant, confidenceLevel) ==
    [Variants        |-> variants,
     Confident       |-> confidenceLevel # NaN /\ confidenceLevel[1] >= 950,
     ConfidenceLevel |-> confidenceLevel,
     LeadingVariant  |-> leadingVariant]

\* Analyze(test, variantStats)
Analyze(t, variantStats) ==
    With([k \in 1..Len(t.Variants) |-> VariantResultOf(t, variantStats, k - 1)], LAMBDA variants :
    With(ScanMax(variants, 0, 0, 0), LAMBDA leadingVariant :
    With(ComparedPair(variants, leadingVariant), LAMBDA pair :
        ResultOf(variants, leadingVariant,
                 IF Len(variants) >= 2
                 THEN SignificanceTest(
                          variants[pair[1] + 1].Conversions, variants[pair[1] + 1].Views,
                          variants[pair[2] + 1].Conversions, variants[pair[2] + 1].Views)
                 ELSE <<0>>))))

\* ---------------------------------------------------------------------
\* The functions of package stats applied to bounded inputs: counts up
\* to MaxCount, confidence levels in thousandths (even ones, so that
\* (1 + confidence) / 2 is exact), variant lists of up to three names.
\* ---------------------------------------------------------------------
Counts == 0..MaxCount

\* counts in the stats handed to Analyze, which takes three of these pairs
AnalyzeCounts == 0..(MaxCount - 1)

Confidences == {0, 500, 700, 798, 800, 850, 900, 950, 960, 970, 990, 996}

AnalyzeLists == {<<>>, <<"A">>, <<"A", "B">>, <<"A", "B", "C">>}

\* the entry of variant i in a []store.VariantStats: none, or its counts
StatsEntry(i, o) ==
    IF o = <<>> THEN <<>>
    ELSE <<[Variant |-> i, Views |-> o[1], Conversions |-> o[2]]>>

\* the []store.VariantStats a caller can pass: at most one entry for each
\* variant, in ascending order of the variant, as GetVariantStats returns
\* them
VariantStatsLists ==
    {StatsEntry(0, a) \o StatsEntry(1, b) \o StatsEntry(2, c) :
         a, b, c \in {<<>>} \cup (AnalyzeCounts \X AnalyzeCounts)}

CallSignificanceTest(aConv, aViews, bConv, bViews) ==
    /\ calc = NoCalc
    /\ calc' = [fn   |-> "SignificanceTest",
                args |-> <<aConv, aViews, bConv, bViews>>,
                out  |-> SignificanceTest(aConv, aViews, bConv, bViews)]
    /\ UNCHANGED <<tests, events, pc, req, test, gocReturn, resp, firstCall, createdLog,
                   cliErr, nops, cli, del, storeErr>>

CallZScore(confidence) ==
    /\ calc = NoCalc
    /\ calc' = [fn |-> "ZScore", args |-> <<confidence>>, out |-> ZScore(confidence)]
    /\ UNCHANGED <<tests, events, pc, req, test, gocReturn, resp, firstCall, createdLog,
                   cliErr, nops, cli, del, storeErr>>

CallWilsonInterval(successes, trials, confidence) ==
    /\ calc = NoCalc
    /\ calc' = [fn   |-> "WilsonInterval",
                args |-> <<successes, trials, confidence>>,
                out  |-> WilsonInterval(successes, trials, confidence)]
    /\ UNCHANGED <<tests, events, pc, req, test, gocReturn, resp, firstCall, createdLog,
                   cliErr, nops, cli, del, storeErr>>

CallAnalyze(variantList, variantStats) ==
    /\ calc = NoCalc
    /\ calc' = [fn   |-> "Analyze",
                args |-> <<variantList, variantStats>>,
                out  |-> Analyze(NewTest("hero", variantList, <<>>, "server"), variantStats)]
    /\ UNCHANGED <<tests, events, pc, req, test, gocReturn, resp, firstCall, createdLog,
                   cliErr, nops, cli, del, storeErr>>

\* the caller has taken the result
CallReturn ==
    /\ calc # NoCalc
    /\ calc' = NoCalc
    /\ UNCHANGED <<tests, events, pc, req, test, gocReturn, resp, firstCall, createdLog,
                   cliErr, nops, cli, del, storeErr>>

StatsNext ==
    \/ \E aConv, aViews, bConv, bViews \in Counts :
           CallSignificanceTest(aConv, aViews, bConv, bViews)
    \/ \E confidence \in Confidences : CallZScore(confidence)
    \/ \E successes, trials \in Counts : \E confidence \in Confidences :
           CallWilsonInterval(successes, trials, confidence)
    \/ \E variantList \in AnalyzeLists : \E variantStats \in VariantStatsLists :
           CallAnalyze(variantList, variantStats)
    \/ CallReturn

StatsSpec == Init /\ [][StatsNext]_vars

TypeOK ==
    /\ DOMAIN tests \subseteq TestNames
    /\ nops \in 0..MaxOps
    /\ \A p \in Procs : pc[p] \in {"idle", "goc_get", "goc_insert", "goc_reread", "get", "conflict", "record", "done"}

(***************************************************************************)
(* Properties.                                                             *)
(***************************************************************************)
\* the key of the event a request reports
ReqKey(r) == <<r.TestName, r.VisitorID, r.EventType>>

\* the rows of the ledger with dedup key k
RowsOf(k) == {e \in BagToSet(events) : EventKey(e) = k}

\* the invocation p has returned 204
Succeeded(p) == pc[p] = "done" /\ resp[p].code = StatusNoContent

\* C1: for every (experiment, visitor, kind) for which RecordEvent was
\* called at least once, the ledger holds exactly one event, its variant is
\* the one of the first call, and a further call for the tuple returns
\* success.
C1_FirstCallWins ==
    /\ \A k \in DOMAIN firstCall :
          /\ Cardinality(RowsOf(k)) = 1
          /\ \A e \in RowsOf(k) : CopiesIn(e, events) = 1 /\ e.variant = firstCall[k]
    /\ \A p \in Procs :
          pc[p] = "record" =>
              RecordEvent(req[p].TestName, req[p].Variant, req[p].EventType, req[p].VisitorID).err = ""

\* a later call with another variant index has returned success
C1_Witness ==
    \E p \in Procs :
        /\ Succeeded(p)
        /\ ReqKey(req[p]) \in DOMAIN firstCall
        /\ firstCall[ReqKey(req[p])] # req[p].Variant
        /\ \E e \in RowsOf(ReqKey(req[p])) : e.variant = firstCall[ReqKey(req[p])]

\* C2: whatever the interleaving of concurrent RecordEvent calls, the ledger
\* never holds two rows with the same (experiment, visitor, kind).
C2_NoDuplicateRows ==
    \A e1 \in BagToSet(events) :
        /\ CopiesIn(e1, events) = 1
        /\ \A e2 \in BagToSet(events) : EventKey(e1) = EventKey(e2) => e1 = e2

\* two invocations in flight together have both recorded the same tuple
C2_Witness ==
    \E p, q \in Procs :
        /\ p # q
        /\ Succeeded(p) /\ Succeeded(q)
        /\ ReqKey(req[p]) = ReqKey(req[q])
        /\ Cardinality(RowsOf(ReqKey(req[p]))) = 1

\* C3: concurrent GetOrCreateTest calls on an unregistered name create one
\* experiment: at most one call reports wasCreated, exactly one once the
\* client experiment exists, no call fails, and every call returns the
\* stored variant list.
C3_GetOrCreateRace ==
    /\ \A n \in TestNames :
          /\ createdLog[n] <= 1
          /\ (n \in DOMAIN tests /\ tests[n].Source = "client") <=> createdLog[n] = 1
    /\ \A p \in Procs :
          /\ resp[p].body # "Failed to get or create test"
          /\ gocReturn[p] # "none" =>
                /\ req[p].TestName \in DOMAIN tests
                /\ test[p].Variants = tests[req[p].TestName].Variants
          /\ \A q \in Procs :
                (gocReturn[p] # "none" /\ gocReturn[q] # "none"
                 /\ req[p].TestName = req[q].TestName)
                => test[p].Variants = test[q].Variants

\* the loser of the insert race, called with another list, got the winner's
C3_Witness ==
    \E p, q \in Procs :
        /\ gocReturn[p] = "created" /\ gocReturn[q] = "reread"
        /\ req[p].TestName = req[q].TestName
        /\ req[p].Variants # req[q].Variants
        /\ test[q].Variants = req[p].Variants

\* C4: a report whose event is already stored is accepted with 204 and
\* leaves the ledger and every aggregate as they were; no report whose event
\* is stored is answered with anything but 204.
C4_DuplicateStep ==
    \A p \in Procs :
        (pc[p] = "record" /\ pc'[p] = "done"
         /\ DedupConflict(req[p].TestName, req[p].EventType, req[p].VisitorID))
        => /\ resp'[p].code = StatusNoContent
           /\ events' = events
           /\ \A n \in TestNames : GetVariantStats(n)' = GetVariantStats(n)

\* the step in which an invocation answers a report whose event is stored
C4_AnswerStep ==
    \A p \in Procs :
        (pc[p] # "done" /\ pc'[p] = "done" /\ req'[p] # NoReq
         /\ \E e \in BagToSet(events) :
                EventKey(e) = ReqKey(req'[p]) /\ e.variant = req'[p].Variant)
        => resp'[p].code = StatusNoContent

C4_DuplicateAbsorbed == [][C4_DuplicateStep /\ C4_AnswerStep]_vars

\* the same report was ingested by two invocations, both answered 204, and
\* the aggregate shows one view
C4_Witness ==
    \E p, q \in Procs :
        /\ p # q
        /\ Succeeded(p) /\ Succeeded(q)
        /\ req[p] = req[q]
        /\ req[p].EventType = "view"
        /\ GetVariantStats(req[p].TestName) =
              <<[Variant |-> req[p].Variant, Views |-> 1, Conversions |-> 0]>>

\* C5: GetVariantStats(experiment) has one entry per variant index with at
\* least one event of that experiment, in ascending order of index, whose
\* views and conversions are the numbers of distinct visitors with a view
\* and a convert event for that experiment and variant.
C5_VariantStats ==
    \A n \in LedgerNames :
        LET stats == GetVariantStats(n)
            Visitors(v, kind) ==
                {vid \in LedgerVisitors :
                    [test_name |-> n, variant |-> v, event_type |-> kind,
                     visitor_id |-> vid] \in BagToSet(events)}
        IN /\ \A i, j \in 1..Len(stats) : i < j => stats[i].Variant < stats[j].Variant
           /\ {stats[i].Variant : i \in 1..Len(stats)} =
                 {v \in LedgerVariants :
                     \E e \in BagToSet(events) : e.test_name = n /\ e.variant = v}
           /\ \A i \in 1..Len(stats) :
                 /\ stats[i].Views = Cardinality(Visitors(stats[i].Variant, "view"))
                 /\ stats[i].Conversions = Cardinality(Visitors(stats[i].Variant, "convert"))

\* two variants of "hero" have stats, one with two viewers and one
\* conversion, while "cta" has events of its own
C5_Witness ==
    /\ Len(GetVariantStats("hero")) = 2
    /\ GetVariantStats("hero")[1] = [Variant |-> 0, Views |-> 2, Conversions |-> 1]
    /\ Len(GetVariantStats("cta")) > 0

\* C6: a handler step registers an experiment only for a client report with
\* labels; a report with source server, or without labels, that names an
\* unregistered experiment gets 400 "Test not found" and changes neither
\* table.
C6_CreateStep ==
    (pc' # pc /\ DOMAIN tests' # DOMAIN tests)
    => \E p \in Procs :
          /\ pc'[p] # pc[p]
          /\ req[p].Source = "client"
          /\ Len(req[p].Variants) > 0
          /\ DOMAIN tests' = DOMAIN tests \cup {req[p].TestName}

C6_UnknownStep ==
    \A p \in Procs :
        (pc[p] \in {"get", "goc_get"} /\ pc'[p] # pc[p]
         /\ req[p].TestName \notin DOMAIN tests
         /\ (req[p].Source # "client" \/ Len(req[p].Variants) = 0))
        => /\ pc'[p] = "done"
           /\ resp'[p] = [code |-> StatusBadRequest, body |-> "Test not found"]
           /\ tests' = tests
           /\ events' = events

C6_OnlyClientLabelsCreate == [][C6_CreateStep /\ C6_UnknownStep]_vars

\* a server report with labels was refused on an unregistered name while a
\* client report with labels registered an experiment
C6_Witness ==
    \E p, q \in Procs :
        /\ pc[p] = "done" /\ resp[p].body = "Test not found"
        /\ req[p].Source = "server" /\ Len(req[p].Variants) > 0
        /\ gocReturn[q] = "created"

\* C7: a report with an empty name, an empty visitor or a kind other than
\* view and convert is answered 400 in the step that receives it, which
\* touches neither table.
C7_RejectStep ==
    \A p \in Procs, r \in BeaconRequests :
        (Receive(p, r)
         /\ (r.TestName = "" \/ r.VisitorID = "" \/ r.EventType \notin {"view", "convert"}))
        => /\ pc'[p] = "done"
           /\ resp'[p].code = StatusBadRequest
           /\ tests' = tests
           /\ events' = events

C7_InvalidReportRejected == [][C7_RejectStep]_vars

\* both rejections have been answered
C7_Witness ==
    \E p, q \in Procs :
        /\ pc[p] = "done" /\ resp[p] = [code |-> StatusBadRequest, body |-> "Missing required fields"]
        /\ pc[q] = "done" /\ resp[q] = [code |-> StatusBadRequest, body |-> "Invalid event type"]

\* C8: a report whose variant index is outside the resolved experiment's
\* range is answered 400 "Invalid variant" and never reaches RecordEvent, and
\* every stored event's variant index is within the range of its experiment.
C8_VariantInRange ==
    /\ \A e \in BagToSet(events) :
          /\ e.test_name \in DOMAIN tests
          /\ 0 <= e.variant /\ e.variant < Len(tests[e.test_name].Variants)
    /\ \A p \in Procs :
          (test[p] # NilTest
           /\ (req[p].Variant < 0 \/ req[p].Variant >= Len(test[p].Variants)))
          => /\ pc[p] = "done"
             /\ resp[p] = [code |-> StatusBadRequest, body |-> "Invalid variant"]

\* an index one past the last variant was refused, with events stored
C8_Witness ==
    \E p \in Procs :
        /\ pc[p] = "done" /\ resp[p].body = "Invalid variant"
        /\ req[p].Variant = Len(test[p].Variants)
        /\ BagToSet(events) # {}
        /\ BagToSet(events) = {e \in BagToSet(events) : e.test_name = req[p].TestName}

\* C9: after a successful ingestion of a report whose source differs from
\* the stored source of its experiment, the conflict flag of the experiment
\* is set (both directions of mismatch).
C9_ConflictFlagged ==
    \A p \in Procs :
        (Succeeded(p)
         /\ req[p].TestName \in DOMAIN tests
         /\ tests[req[p].TestName].Source # req[p].Source)
        => tests[req[p].TestName].HasSourceConflict

\* C10: a set conflict flag stays set, and the step that flags a conflict
\* changes nothing but the flag.
C10_StickyStep ==
    /\ \A n \in DOMAIN tests :
          tests[n].HasSourceConflict =>
              n \in DOMAIN tests' /\ tests'[n].HasSourceConflict
    /\ \A p \in Procs :
          (pc[p] = "conflict" /\ pc'[p] = "record")
          => /\ test[p].Name \in DOMAIN tests
             /\ tests' = [tests EXCEPT ![test[p].Name].HasSourceConflict = TRUE]
             /\ events' = events

C10_ConflictSticky == [][C10_StickyStep]_vars

\* two client reports in flight together both flagged the server experiment
C10_Witness ==
    \E p, q \in Procs :
        /\ p # q
        /\ pc[p] \in {"record", "done"} /\ pc[q] \in {"record", "done"}
        /\ ConflictDetected(req[p], test[p]) /\ ConflictDetected(req[q], test[q])
        /\ test[p].Name = test[q].Name
        /\ tests[test[p].Name].HasSourceConflict
        /\ tests[test[p].Name].Source = "server"


(***************************************************************************)
(* The winner command and the terminal state.                              *)
(***************************************************************************)

\* C11: declaring a winner on an experiment that is not running fails and
\* changes neither state nor winner, so completed is terminal: once an
\* experiment is completed, no step of any interleaving of winner commands
\* and reports changes its state or its winner.
C11_CompletedTerminal ==
    [][\A n \in DOMAIN tests :
          tests[n].State = StateCompleted =>
              /\ n \in DOMAIN tests'
              /\ tests'[n].State = StateCompleted
              /\ tests'[n].WinnerVariant = tests[n].WinnerVariant]_vars

\* a winner command given an index outside the variants fails at its
\* validation and writes nothing; on a running experiment the failure is the
\* variant error
C12_OutOfRangeStep ==
    \A c \in CliProcs, n \in AdminNames, i \in VariantIndexes :
        (/\ WinnerGetTest(c, n, i)
         /\ n \in DOMAIN tests
         /\ (i < 0 \/ i >= Len(tests[n].Variants)))
        => /\ cli'[c].pc = "exit"
           /\ cli'[c].err # ""
           /\ tests[n].State = StateRunning => cli'[c].err = "variant doesn't exist"
           /\ tests' = tests

C12_WinnerState ==
    \A n \in DOMAIN tests :
        /\ (tests[n].WinnerVariant # <<>>) <=> (tests[n].State = StateCompleted)
        /\ tests[n].WinnerVariant # <<>> =>
               /\ 0 <= tests[n].WinnerVariant[1]
               /\ tests[n].WinnerVariant[1] < Len(tests[n].Variants)

\* C12: in every reachable state an experiment has a winner exactly when it
\* is completed, and the winner is an index into its variant list; a winner
\* command with an index outside that list fails (with the variant error
\* when the experiment is running) and changes nothing.
C12_WinnerValid == []C12_WinnerState /\ [][C12_OutOfRangeStep]_vars

\* one command was refused for its index and another completed the test
C12_Witness ==
    /\ \E c \in CliProcs : cli[c].err = "variant doesn't exist"
    /\ \E n \in DOMAIN tests :
           tests[n].State = StateCompleted /\ tests[n].WinnerVariant # <<>>


\* C13: SetWinner called on the store for a registered experiment succeeds
\* whatever the experiment's state and whatever the index, sets the state to
\* completed and the winner to the index given, replacing an earlier winner,
\* and leaves everything else alone; for an unregistered name it returns
\* ErrNotFound and changes nothing.
C13_SetWinnerStep ==
    \A n \in AdminNames, i \in VariantIndexes :
        StoreSetWinner(n, i) =>
            IF n \in DOMAIN tests
            THEN /\ storeErr' = ""
                 /\ tests' = [tests EXCEPT ![n].State = StateCompleted,
                                           ![n].WinnerVariant = <<i>>]
            ELSE /\ storeErr' = "ErrNotFound"
                 /\ tests' = tests

C13_StoreSetWinner == [][C13_SetWinnerStep]_vars

\* a winner outside the variant list, which only the store-level call can set
C13_Witness ==
    /\ storeErr = ""
    /\ "hero" \in DOMAIN tests
    /\ tests["hero"].State = StateCompleted
    /\ tests["hero"].WinnerVariant = <<2>>
    /\ Len(tests["hero"].Variants) = 2


(***************************************************************************)
(* Registration.                                                           *)
(***************************************************************************)

\* C14: the create command on a free name registers the experiment with
\* source server, state running, no conflict flag and no winner; on a name
\* that is taken, by an earlier create or by an auto-create, it fails and
\* leaves the registered experiment as it was.
C14_CreateStep ==
    \A c \in CliProcs, n \in AdminNames, vl \in AdminLists, u \in AdminURLs :
        (CreateCmdCreateTest(c, n, vl, u) /\ Len(vl) >= 2) =>
            IF n \notin DOMAIN tests
            THEN /\ cli'[c].err = ""
                 /\ DOMAIN tests' = DOMAIN tests \cup {n}
                 /\ tests'[n].Variants = vl
                 /\ tests'[n].Source = "server"
                 /\ tests'[n].State = StateRunning
                 /\ tests'[n].HasSourceConflict = FALSE
                 /\ tests'[n].WinnerVariant = <<>>
                 /\ \A m \in DOMAIN tests : tests'[m] = tests[m]
            ELSE /\ cli'[c].err = "failed to create test"
                 /\ cli'[c].pc = "exit"
                 /\ tests' = tests

C14_CreateRegisters == [][C14_CreateStep]_vars

\* a create refused on a name that an auto-create had taken
C14_Witness ==
    \E c \in CliProcs :
        /\ cli[c].cmd = "create"
        /\ cli[c].err = "failed to create test"
        /\ cli[c].name \in DOMAIN tests
        /\ tests[cli[c].name].Source = "client"


\* C15: GetOrCreateTest on a registered name returns the stored experiment
\* with wasCreated = false and writes nothing, also when the variant list it
\* was given differs from the stored one; on an unregistered name it
\* registers the experiment with source client and the list given, and
\* returns it with wasCreated = true.
C15_GetOrCreateStep ==
    \A p \in Procs :
        /\ (GocGet(p) \/ GocReread(p)) =>
               /\ tests' = tests
               /\ req[p].TestName \in DOMAIN tests =>
                      /\ gocReturn'[p] \in {"existing", "reread"}
                      /\ test'[p] = GetTest(req[p].TestName).test
                      /\ test'[p].Variants = tests[req[p].TestName].Variants
        /\ GocInsert(p) =>
               /\ \A n \in DOMAIN tests : n \in DOMAIN tests' /\ tests'[n] = tests[n]
               /\ req[p].TestName \notin DOMAIN tests =>
                      /\ gocReturn'[p] = "created"
                      /\ DOMAIN tests' = DOMAIN tests \cup {req[p].TestName}
                      /\ tests'[req[p].TestName].Source = "client"
                      /\ tests'[req[p].TestName].Variants = req[p].Variants
                      /\ tests'[req[p].TestName].State = StateRunning
                      /\ test'[p].Source = "client"
                      /\ test'[p].Variants = req[p].Variants
               /\ req[p].TestName \in DOMAIN tests => gocReturn'[p] = gocReturn[p]

C15_GetOrCreateFrame == [][C15_GetOrCreateStep]_vars

\* a call given other labels than the stored ones got the stored experiment
C15_Witness ==
    \E p \in Procs :
        /\ gocReturn[p] = "existing"
        /\ req[p] # NoReq
        /\ req[p].TestName \in DOMAIN tests
        /\ req[p].Variants # tests[req[p].TestName].Variants
        /\ test[p].Variants = tests[req[p].TestName].Variants


\* the definitions the claim excludes: fewer than two variants, or weights
\* given whose count, range or sum is off
C16_InvalidDefinition(variantList, weightList) ==
    \/ Len(variantList) < 2
    \/ /\ weightList # <<>>
       /\ \/ Len(weightList) # Len(variantList)
          \/ \E i \in 1..Len(weightList) : weightList[i] < 0 \/ weightList[i] > 10000
          \/ SumWeights(weightList) < 10000 - 10
          \/ SumWeights(weightList) > 10000 + 10

C16_InitStep ==
    \A n \in AdminNames, vl \in InitLists, wl \in InitWeights :
        (InitCmd(n, vl, wl) /\ C16_InvalidDefinition(vl, wl)) =>
            /\ cliErr' \in {"at least 2 variants required",
                            "number of weights must match number of variants",
                            "weights must be between 0 and 1",
                            "weights must sum to 1.0"}
            /\ tests' = tests

C16_CreateStep ==
    \A n \in AdminNames, vl \in CreateLists :
        (CreateCmd(n, vl) /\ Len(vl) < 2) =>
            /\ cliErr' = "need at least 2 variants"
            /\ tests' = tests

C16_Registered ==
    \A n \in DOMAIN tests : ~C16_InvalidDefinition(tests[n].Variants, tests[n].Weights)

\* C16: a create (the create command, or the init command that takes
\* weights) with fewer than 2 variants, with weights whose count differs
\* from the variant count, with a weight outside [0,1] or with weights whose
\* sum is further than 0.001 from 1.0 fails with a definition error and
\* registers nothing; no registered experiment has such a definition.
C16_InvalidDefinitionRejected ==
    [][C16_InitStep /\ C16_CreateStep]_vars /\ []C16_Registered

\* a definition was refused for its sum while another one, with weights
\* inside the tolerance, is registered
C16_Witness ==
    /\ cliErr = "weights must sum to 1.0"
    /\ \E n \in DOMAIN tests : tests[n].Weights = <<5000, 4995>>


\* C17: in every reachable state every registered experiment has at least
\* 2 variants, whether a create registered it or a report carrying labels.
C17_AtLeastTwoVariants ==
    \A n \in DOMAIN tests : Len(tests[n].Variants) >= 2


(***************************************************************************)
(* Lookup by URL.                                                          *)
(***************************************************************************)

\* the experiments that are running and whose stored URL is u
C18_RunningAt(u) ==
    {n \in AdminNames :
        /\ n \in DOMAIN tests
        /\ tests[n].State = StateRunning
        /\ tests[n].URL # <<>>
        /\ GetTest(n).test.URL = u}

C18_Lookup ==
    \A u \in AdminURLs \cup {"/A"} :
        /\ GetTestsByURL(u) = C18_RunningAt(u)
        /\ \A n \in DOMAIN tests :
               (tests[n].URL = <<>> \/ tests[n].State = StateCompleted)
                   => n \notin GetTestsByURL(u)

C18_WinnerStep ==
    \A c \in CliProcs :
        (WinnerSetWinner(c) /\ cli'[c].err = "") =>
            \A u \in AdminURLs : cli[c].name \notin GetTestsByURL(u)'

\* C18: GetTestsByURL(url) returns exactly the running experiments whose
\* stored URL equals url, nothing (and no error) when there is none; an
\* experiment is no longer returned once a winner is declared, and one
\* without a stored URL is never returned.
C18_TestsByURL == []C18_Lookup /\ [][C18_WinnerStep]_vars

\* two experiments stored for "/": the running one is returned, the
\* completed one is not
C18_Witness ==
    \E n, m \in DOMAIN tests :
        /\ tests[n].URL = <<"/">> /\ tests[n].State = StateCompleted
        /\ tests[m].URL = <<"/">> /\ tests[m].State = StateRunning
        /\ GetTestsByURL("/") = {m}
        /\ GetTestsByURL("/a") = {}

(***************************************************************************)
(* Deletion and storage errors.                                            *)
(***************************************************************************)

\* C19: when DeleteTest returns without error the experiment is absent and
\* no event names it, also with reports running meanwhile; and a name that
\* becomes registered has no event yet.
C19_DeleteStep ==
    /\ (DeleteTestRow /\ del'.err = "") =>
           /\ del.name \notin DOMAIN tests'
           /\ \A e \in BagToSet(events') : e.test_name # del.name
    /\ \A n \in TestNames :
           (n \notin DOMAIN tests /\ n \in DOMAIN tests') =>
               \A e \in BagToSet(events') : e.test_name # n

C19_DeleteCascades == [][C19_DeleteStep]_vars

\* C20 as stated: every error a store call returns while a report is
\* processed makes the report fail: the step at which the call fails answers
\* the report with an error status.
C20_ErrorStep ==
    \A p \in Procs :
        /\ ((Get(p) \/ GocReread(p)) /\ GetTest(req[p].TestName).err # "") =>
               (pc'[p] = "done" /\ resp'[p].code >= StatusBadRequest)
        /\ (MarkConflict(p) /\ SetSourceConflict(test[p].Name, TRUE).err # "") =>
               (pc'[p] = "done" /\ resp'[p].code >= StatusBadRequest)
        /\ (Record(p) /\ RecordEvent(req[p].TestName, req[p].Variant, req[p].EventType,
                                     req[p].VisitorID).err # "") =>
               (pc'[p] = "done" /\ resp'[p].code >= StatusBadRequest)

C20_AmendedStep ==
    \A p \in Procs :
        /\ ((Get(p) \/ GocReread(p)) /\ GetTest(req[p].TestName).err # "") =>
               (pc'[p] = "done" /\ resp'[p].code >= StatusBadRequest)
        /\ (GocInsert(p)
              /\ createTestWithSource(req[p].TestName, req[p].Variants, <<>>, "client").err # "") =>
               \/ pc'[p] = "goc_reread"
               \/ (pc'[p] = "done" /\ resp'[p].code >= StatusBadRequest)
        /\ (MarkConflict(p) /\ SetSourceConflict(test[p].Name, TRUE).err # "") =>
               (pc'[p] = "record" /\ tests' = tests /\ resp'[p] = resp[p])

C21_States ==
    \A n \in DOMAIN tests : tests[n].State \in {StateRunning, StateCompleted}

C21_NewStep ==
    \A n \in AdminNames :
        (n \notin DOMAIN tests /\ n \in DOMAIN tests') => tests'[n].State = StateRunning

\* C21: no sequence of creates, auto-creates, reports, winner commands and
\* URL settings puts an experiment into state paused: every registered
\* experiment is running or completed, and an experiment that becomes
\* registered is running.
C21_NeverPaused == []C21_States /\ [][C21_NewStep]_vars

\* one experiment completed by a winner command, another one, with a URL
\* set, still running
C21_Witness ==
    \E n, m \in DOMAIN tests :
        /\ tests[n].State = StateCompleted
        /\ tests[m].State = StateRunning
        /\ tests[m].URL # <<>>


(***************************************************************************)
(* What a report changes.                                                  *)
(***************************************************************************)

\* C28: a report rejected for its input (missing field, bad kind, unknown
\* experiment, variant index out of range) leaves the registry and the
\* ledger as they were: the step that answers a report with 400 writes to
\* neither table; the steps of the report before it are reads.
C28_RejectStep ==
    \A p \in Procs :
        (pc[p] # "done" /\ pc'[p] = "done" /\ resp'[p].code = StatusBadRequest)
        => (tests' = tests /\ events' = events)

C28_RejectedChangesNothing == [][C28_RejectStep]_vars

\* C29: in every state reached through ingestion the conversions counted
\* for a variant of an experiment are at most its views.
C29_ConversionsAtMostViews ==
    \A n \in TestNames :
        \A i \in DOMAIN GetVariantStats(n) :
            GetVariantStats(n)[i].Conversions <= GetVariantStats(n)[i].Views


\* no step of a report changes the state, winner, variants or source of a
\* registered experiment
C30_FrameStep ==
    \A p \in Procs :
        pc'[p] # pc[p] =>
            \A n \in DOMAIN tests :
                /\ n \in DOMAIN tests'
                /\ tests'[n].State = tests[n].State
                /\ tests'[n].WinnerVariant = tests[n].WinnerVariant
                /\ tests'[n].Variants = tests[n].Variants
                /\ tests'[n].Source = tests[n].Source

\* a report that finds its experiment is routed as if the experiment were
\* running, and its event is recorded and answered 204 whatever the state
C30_AcceptStep ==
    \A p \in Procs :
        /\ ((Get(p) \/ GocGet(p)) /\ req[p].TestName \in DOMAIN tests) =>
               pc'[p] = AfterResolve(req[p], [GetTest(req[p].TestName).test
                                                 EXCEPT !.State = StateRunning])
        /\ Record(p) =>
               /\ resp'[p].code = StatusNoContent
               /\ \E e \in BagToSet(events') : EventKey(e) = ReqKey(req[p])

\* C30: ingestion does not depend on the experiment's state: a valid report
\* for a completed experiment is accepted and its event recorded as for a
\* running one, and no step of ingestion changes an experiment's state,
\* winner, variants or stored source.
C30_StateIndependent == [][C30_FrameStep /\ C30_AcceptStep]_vars

\* a report resolved its experiment when it was completed, was answered
\* 204, and its event is in the ledger
C30_Witness ==
    \E p \in Procs :
        /\ Succeeded(p)
        /\ test[p].State = StateCompleted
        /\ \E e \in BagToSet(events) :
               e.test_name = test[p].Name /\ EventKey(e) = ReqKey(req[p])


\* ---------------------------------------------------------------------
\* Properties of package stats (StatsSpec)
\* ---------------------------------------------------------------------
\* conversions and views of variant i (0-based) in a call of Analyze, the
\* zero value without stats
CountsOf(variantStats, i) ==
    IF \E k \in DOMAIN variantStats : variantStats[k].Variant = i
    THEN LET k == CHOOSE k \in DOMAIN variantStats : variantStats[k].Variant = i
         IN  <<variantStats[k].Conversions, variantStats[k].Views>>
    ELSE <<0, 0>>

\* conversions/views as a fraction <<numerator, denominator>>, 0/1 without views
RateOf(variantStats, i) ==
    LET c == CountsOf(variantStats, i)
    IN  IF c[2] > 0 THEN c ELSE <<0, 1>>

\* the rate of variant i is below that of variant j, by cross-multiplication
RateLess(variantStats, i, j) ==
    RateOf(variantStats, i)[1] * RateOf(variantStats, j)[2]
        < RateOf(variantStats, j)[1] * RateOf(variantStats, i)[2]

\* the lowest index of the maximum rate among the variants in S
ArgMaxRate(variantStats, S) ==
    CHOOSE i \in S :
        \A j \in S : /\ ~RateLess(variantStats, i, j)
                     /\ (j < i => RateLess(variantStats, j, i))

\* C22: Analyze reports as leading variant the lowest index of the maximum
\* conversion rate (conversions/views, 0 without views) over all variants of
\* the experiment, those without stats included; index 0 when all rates
\* are 0.
C22_LeadingIsArgmax ==
    calc.fn = "Analyze" /\ Len(calc.args[1]) > 0 =>
        LET stats == calc.args[2]
            all   == 0..(Len(calc.args[1]) - 1)
        IN  /\ calc.out.LeadingVariant = ArgMaxRate(stats, all)
            /\ (\A i \in all : RateOf(stats, i)[1] = 0) => calc.out.LeadingVariant = 0

\* variants 1 and 2 share the maximum rate, variant 0 has no stats
C22_Witness ==
    /\ calc.fn = "Analyze"
    /\ Len(calc.args[1]) = 3
    /\ \A k \in DOMAIN calc.args[2] : calc.args[2][k].Variant # 0
    /\ CountsOf(calc.args[2], 1) = <<1, 2>>
    /\ CountsOf(calc.args[2], 2) = <<1, 2>>
    /\ calc.out.LeadingVariant = 1

\* C23: with at least 2 variants the confidence Analyze reports is
\* SignificanceTest(control, best other variant by rate, lowest index on
\* ties) when the leading variant is 0 and SignificanceTest(leading
\* variant, control) otherwise; with fewer than 2 variants the confidence
\* is 0 and confident is false.
C23_ConfidencePair ==
    calc.fn = "Analyze" =>
        LET stats == calc.args[2]
            n     == Len(calc.args[1])
            lead  == calc.out.LeadingVariant
            ctl   == CountsOf(stats, 0)
            oth   == CountsOf(stats, IF lead = 0 THEN ArgMaxRate(stats, 1..(n - 1)) ELSE lead)
        IN  IF n >= 2
            THEN calc.out.ConfidenceLevel =
                     IF lead = 0
                     THEN SignificanceTest(ctl[1], ctl[2], oth[1], oth[2])
                     ELSE SignificanceTest(oth[1], oth[2], ctl[1], ctl[2])
            ELSE calc.out.ConfidenceLevel = <<0>> /\ ~calc.out.Confident

\* the last of three variants leads and beats the control with a
\* confidence above one half
C23_Witness ==
    /\ calc.fn = "Analyze"
    /\ Len(calc.args[1]) = 3
    /\ calc.out.LeadingVariant = 2
    /\ calc.out.ConfidenceLevel # NaN
    /\ calc.out.ConfidenceLevel[1] > Scale \div 2

\* C24: SignificanceTest returns exactly 0.5 whenever aViews is 0 or
\* bViews is 0, whatever the conversion counts are.
C24_ZeroViewsHalf ==
    calc.fn = "SignificanceTest" /\ (calc.args[2] = 0 \/ calc.args[4] = 0) =>
        calc.out = <<Scale \div 2>>

\* only the first side has no views, and the second has conversions
C24_Witness ==
    /\ calc.fn = "SignificanceTest"
    /\ calc.args[2] = 0 /\ calc.args[4] > 0 /\ calc.args[3] > 0
    /\ calc.out = <<Scale \div 2>>

\* C25: whenever both sides have views, SignificanceTest(a, b) is a number
\* and equals 1 - SignificanceTest(b, a) up to the rounding of the last
\* digit, the branch with standard error 0 included.
C25_Antisymmetric ==
    calc.fn = "SignificanceTest" /\ calc.args[2] > 0 /\ calc.args[4] > 0 =>
        LET back == SignificanceTest(calc.args[3], calc.args[4], calc.args[1], calc.args[2])
        IN  /\ calc.out # NaN
            /\ back # NaN
            /\ Abs(calc.out[1] + back[1] - Scale) <= 2

\* C26: for trials > 0 the bounds of WilsonInterval satisfy
\* 0 <= lower <= successes/trials <= upper <= 1; for trials = 0 they are
\* (0, 0).
C26_WilsonBrackets ==
    calc.fn = "WilsonInterval" =>
        IF calc.args[2] = 0
        THEN calc.out = <<<<0>>, <<0>>>>
        ELSE /\ calc.out[1] # NaN
             /\ calc.out[2] # NaN
             /\ 0 <= calc.out[1][1]
             /\ calc.out[1][1] <= FDiv(Float(calc.args[1]), Float(calc.args[2]))
             /\ FDiv(Float(calc.args[1]), Float(calc.args[2])) <= calc.out[2][1]
             /\ calc.out[2][1] <= Scale

\* C27: ZScore returns 1.28, 1.44, 1.645, 1.96, 2.576 for the levels 0.80,
\* 0.85, 0.90, 0.95, 0.99, and for every other level the value of the
\* rational approximation to the inverse normal CDF.
C27_TableOnlyAtLevels ==
    calc.fn = "ZScore" =>
        LET c == calc.args[1]
        IN  calc.out = CASE c = 800 -> 1280
                         [] c = 850 -> 1440
                         [] c = 900 -> 1645
                         [] c = 950 -> 1960
                         [] c = 990 -> 2576
                         [] OTHER   -> approximateZScore(c)

=============================================================================
